---- MODULE Spec2Model ----
(***************************************************************************)
(* A model of build.rs of audiopus_sys: the build script that resolves the *)
(* link mode of libopus, locates or builds the library and prints the      *)
(* cargo directives, and the integer-macro rule of its binding generator.  *)
(*                                                                         *)
(* Strings the script computes with (directories, macro names) are         *)
(* sequences of one-character strings, so that formatting and prefix tests *)
(* are computed and not assumed.                                           *)
(***************************************************************************)
EXTENDS Naturals, Integers, Sequences, FiniteSets, TLC

VARIABLES
    features,        \* cargo features the script was compiled with
    target,          \* the target it was compiled for (cfg values)
    env,             \* the process environment, fixed for the run
    pc,              \* where main is
    is_static,       \* main's `is_static`: <<>> before line 171, <<b>> after
    probe_arg,       \* <<b>> once find_via_pkg_config(b) was called
    probe_result,    \* <<r>> once find_via_pkg_config returned r
    installed_opus,  \* <<r>> once find_installed_opus returned r
    out,             \* the cargo lines printed so far, in order
    calls,           \* the functions main has invoked so far, in order
    panic,           \* the panic message, "" while the run has not panicked
    link_dir,        \* link_opus's directory argument (pure-function spec)
    macro_name,      \* int_macro's `name` argument
    macro_value,     \* int_macro's `_value` argument
    macro_kind       \* <<k>> once int_macro returned k

vars == <<features, target, env, pc, is_static, probe_arg, probe_result,
          installed_opus, out, calls, panic, link_dir, macro_name,
          macro_value, macro_kind>>

(***************************************************************************)
(* Bounds                                                                  *)
(***************************************************************************)
MaxDirLen == 3
MaxNameLen == 6

\* All strings over `alphabet` of length 0..n
Strs(alphabet, n) == UNION {[1..k -> alphabet] : k \in 0..n}

Last(s) == s[Len(s)]

(***************************************************************************)
(* Targets: the cfg values rustc sets                                      *)
(***************************************************************************)
Target(family, os, tenv) == [family |-> family, os |-> os, env |-> tenv]

Targets ==
    { Target("unix", "linux", "gnu"),
      Target("unix", "linux", "musl"),
      Target("unix", "macos", ""),
      Target("unix", "freebsd", ""),
      Target("windows", "windows", "msvc"),
      Target("windows", "windows", "gnu"),
      Target("unix", "netbsd", ""),
      Target("", "unknown", "") }

cfg_unix(t) == t.family = "unix"
cfg_windows(t) == t.family = "windows"

\* #[cfg(any(unix, target_env = "gnu"))]
pkg_config_compiled(t) == cfg_unix(t) \/ t.env = "gnu"

\* The tail expressions of default_library_linking that survive cfg
default_library_linking_blocks(t) ==
    (IF cfg_windows(t) \/ t.os = "macos" \/ t.env = "musl" THEN {TRUE} ELSE {})
    \cup
    (IF t.os = "freebsd" \/ (cfg_unix(t) /\ t.env = "gnu") THEN {FALSE} ELSE {})

\* The function has a body of type bool only when exactly one block survives
Compiles(t) == Cardinality(default_library_linking_blocks(t)) = 1

default_library_linking(t) == CHOOSE b \in default_library_linking_blocks(t) : TRUE

(***************************************************************************)
(* The environment                                                         *)
(***************************************************************************)
Absent == [tag |-> "absent", val |-> <<>>]
Unicode(s) == [tag |-> "unicode", val |-> s]
\* a value that is set but is not valid Unicode ("#" stands for the bad unit)
NotUnicode == [tag |-> "not_unicode", val |-> <<"#">>]

\* std::env::var: Ok(value) only for a variable that is set to valid Unicode
env_var(e, name) ==
    IF e[name].tag = "unicode"
    THEN [ok |-> TRUE, val |-> e[name].val]
    ELSE [ok |-> FALSE, val |-> <<>>]

Dirs == { <<"u">>, <<"u", "/">> }
FlagValues == { Absent, NotUnicode, Unicode(<<"1">>) }
DirValues == { Absent, NotUnicode } \cup { Unicode(d) : d \in Dirs }

Environments ==
    [ LIBOPUS_STATIC : FlagValues, OPUS_STATIC : FlagValues,
      LIBOPUS_NO_PKG : FlagValues, OPUS_NO_PKG : FlagValues,
      LIBOPUS_LIB_DIR : DirValues, OPUS_LIB_DIR : DirValues ]

Features == [ static : BOOLEAN, dynamic : BOOLEAN, generate_binding : BOOLEAN ]

(***************************************************************************)
(* Printed lines                                                           *)
(***************************************************************************)
Info(msg, arg) == [kind |-> "info", word |-> msg, arg |-> arg]
LinkLib(word) == [kind |-> "rustc-link-lib", word |-> word, arg |-> <<"o", "p", "u", "s">>]
LinkSearch(path) == [kind |-> "rustc-link-search", word |-> "native", arg |-> path]

(***************************************************************************)
(* The script's functions                                                  *)
(***************************************************************************)
rustc_linking_word_swapped(is_static_link) ==
    IF is_static_link THEN "dylib" ELSE "static"

rustc_linking_word(is_static_link) ==
    IF is_static_link THEN "static" ELSE "dylib"

\* link_opus with the base directory's trailing separators removed first
RECURSIVE trim_separators(_)
trim_separators(dir) ==
    IF Len(dir) > 0 /\ Last(dir) = "/"
    THEN trim_separators(SubSeq(dir, 1, Len(dir) - 1))
    ELSE dir

link_opus_normalised(is_static_arg, opus_build_dir) ==
    << Info("Linking Opus as {} lib: {}", opus_build_dir),
       LinkLib(rustc_linking_word(is_static_arg)),
       LinkSearch(trim_separators(opus_build_dir) \o <<"/", "l", "i", "b">>) >>

\* link_opus without its last println
link_opus_no_search(is_static_arg, opus_build_dir) ==
    << Info("Linking Opus as {} lib: {}", opus_build_dir),
       LinkLib(rustc_linking_word(is_static_arg)) >>

\* The three lines link_opus prints: format!("{}/lib", dir) is plain
\* concatenation of the Display output and "/lib"
link_opus(is_static_arg, opus_build_dir) ==
    << Info("Linking Opus as {} lib: {}", opus_build_dir),
       LinkLib(rustc_linking_word(is_static_arg)),
       LinkSearch(opus_build_dir \o <<"/", "l", "i", "b">>) >>

Some(v) == [some |-> TRUE, val |-> v]
None == [some |-> FALSE, val |-> <<>>]

find_installed_opus(e) ==
    IF env_var(e, "LIBOPUS_LIB_DIR").ok
    THEN Some(env_var(e, "LIBOPUS_LIB_DIR").val)
    ELSE IF env_var(e, "OPUS_LIB_DIR").ok
         THEN Some(env_var(e, "OPUS_LIB_DIR").val)
         ELSE None

\* is_static_build: the value returned and the line printed on the way
is_static_build(f, e, t) ==
    IF f.static /\ f.dynamic
    THEN [ret |-> default_library_linking(t), out |-> <<>>]
    ELSE IF f.static \/ env_var(e, "LIBOPUS_STATIC").ok \/ env_var(e, "OPUS_STATIC").ok
    THEN [ret |-> TRUE,
          out |-> <<Info("Static feature or environment variable found.", <<>>)>>]
    ELSE IF f.dynamic
    THEN [ret |-> FALSE, out |-> <<Info("Dynamic feature enabled.", <<>>)>>]
    ELSE [ret |-> default_library_linking(t),
          out |-> <<Info("No feature or environment variable found, linking by default.", <<>>)>>]

\* main's test of the two bypass variables
pkg_config_bypassed(e) ==
    env_var(e, "LIBOPUS_NO_PKG").ok \/ env_var(e, "OPUS_NO_PKG").ok

\* main after a successful probe, without its `return`
after_probe_no_return(found) == "find_installed_opus"

\* Where main goes after find_via_pkg_config returned `found`
after_probe(found) == IF found THEN "returned" ELSE "find_installed_opus"

\* Where main goes after is_static_build on target t
after_is_static_build_unconditional(t) == "pkg_config"

after_is_static_build(t) ==
    IF pkg_config_compiled(t) THEN "pkg_config" ELSE "find_installed_opus"

\* What the native build can do: the path does not canonicalize, CMake fails,
\* or CMake returns its output directory
BuildOutcomes == {"canonicalize_error", "cmake_error", "ok"}

\* build_opus linking before the CMake build has run
build_opus_link_first(is_static_arg, outcome, dir) ==
    IF outcome = "canonicalize_error"
    THEN [out |-> <<>>, panic |-> "Could not canonicalise to absolute path"]
    ELSE IF outcome = "cmake_error"
    THEN [out |-> <<Info("Opus source path used: {:?}.", <<>>),
                    Info("Building Opus via CMake.", <<>>)>>
                  \o link_opus(is_static_arg, dir),
          panic |-> "cmake build failed"]
    ELSE [out |-> <<Info("Opus source path used: {:?}.", <<>>),
                    Info("Building Opus via CMake.", <<>>)>>
                  \o link_opus(is_static_arg, dir),
          panic |-> ""]

\* build_opus: the lines it prints and the panic it ends with ("" if none);
\* "cmake build failed" stands for the panic raised inside cmake::Config::build
build_opus(is_static_arg, outcome, dir) ==
    IF outcome = "canonicalize_error"
    THEN [out |-> <<>>, panic |-> "Could not canonicalise to absolute path"]
    ELSE IF outcome = "cmake_error"
    THEN [out |-> <<Info("Opus source path used: {:?}.", <<>>),
                    Info("Building Opus via CMake.", <<>>)>>,
          panic |-> "cmake build failed"]
    ELSE [out |-> <<Info("Opus source path used: {:?}.", <<>>),
                    Info("Building Opus via CMake.", <<>>)>>
                  \o link_opus(is_static_arg, dir),
          panic |-> ""]

\* What bindgen can do: the header does not parse, the file cannot be
\* written, or the binding is written
BindingOutcomes == {"generate_error", "write_error", "ok"}

generate_binding(outcome) ==
    IF outcome = "generate_error"
    THEN [out |-> <<>>, panic |-> "Unable to generate binding"]
    ELSE IF outcome = "write_error"
    THEN [out |-> <<>>, panic |-> "Could not write binding to the file at src/lib.rs"]
    ELSE [out |-> <<Info("Successfully generated binding.", <<>>)>>, panic |-> ""]

starts_with(s, prefix) ==
    Len(s) >= Len(prefix) /\ SubSeq(s, 1, Len(prefix)) = prefix

\* An i64 is its four 16-bit limbs in two's complement, most significant
\* first (the checker's integers are 32 bits wide)
Limb == 2^16
I64(l1, l2, l3, l4) == <<l1, l2, l3, l4>>

\* Whether an i64 is in i32's range: the upper limbs only extend the sign
fits_i32(v) ==
    \/ v[1] = 0 /\ v[2] = 0 /\ v[3] < Limb \div 2
    \/ v[1] = Limb - 1 /\ v[2] = Limb - 1 /\ v[3] >= Limb \div 2

\* int_macro overriding only the values an i32 can hold
int_macro_in_range(name, value) ==
    IF starts_with(name, <<"O", "P", "U", "S", "_">>) /\ fits_i32(value)
    THEN "I32" ELSE "None"

\* OpusCallbacks::int_macro: Some(IntKind::I32) or None
int_macro(name, value) ==
    IF starts_with(name, <<"O", "P", "U", "S", "_">>) THEN "I32" ELSE "None"

(***************************************************************************)
(* main, one action per step                                               *)
(***************************************************************************)
Init ==
    /\ features \in Features
    /\ target \in {t \in Targets : Compiles(t)}
    /\ env \in Environments
    /\ pc = IF features.generate_binding THEN "generate_binding" ELSE "is_static_build"
    /\ is_static = <<>>
    /\ probe_arg = <<>>
    /\ probe_result = <<>>
    /\ installed_opus = <<>>
    /\ out = <<>>
    /\ calls = <<>>
    /\ panic = ""
    /\ link_dir = <<>>
    /\ macro_name = <<>>
    /\ macro_value = I64(0, 0, 0, 0)
    /\ macro_kind = <<>>

MacroUnchanged == UNCHANGED <<link_dir, macro_name, macro_value, macro_kind>>
InputsUnchanged == UNCHANGED <<features, target, env>>

\* main, line 169 (only with the generate_binding feature)
GenerateBinding ==
    /\ pc = "generate_binding"
    /\ \E outcome \in BindingOutcomes :
         LET r == generate_binding(outcome) IN
         /\ out' = out \o r.out
         /\ panic' = r.panic
         /\ pc' = IF r.panic = "" THEN "is_static_build" ELSE "panicked"
    /\ calls' = Append(calls, "generate_binding")
    /\ UNCHANGED <<is_static, probe_arg, probe_result, installed_opus>>
    /\ InputsUnchanged /\ MacroUnchanged

\* main, line 171
ResolveLinkMode ==
    /\ pc = "is_static_build"
    /\ LET r == is_static_build(features, env, target) IN
         /\ is_static' = <<r.ret>>
         /\ out' = out \o r.out
    /\ calls' = Append(calls, "is_static_build")
    /\ pc' = after_is_static_build(target)
    /\ UNCHANGED <<probe_arg, probe_result, installed_opus, panic>>
    /\ InputsUnchanged /\ MacroUnchanged

\* main, lines 175-176
PkgConfigBypass ==
    /\ pc = "pkg_config"
    /\ pkg_config_bypassed(env)
    /\ out' = Append(out, Info("Bypassed pkg-config.", <<>>))
    /\ pc' = "find_installed_opus"
    /\ UNCHANGED <<is_static, probe_arg, probe_result, installed_opus, calls, panic>>
    /\ InputsUnchanged /\ MacroUnchanged

\* main, lines 177-183: the probe's answer is the package registry's
PkgConfigProbe ==
    /\ pc = "pkg_config"
    /\ ~pkg_config_bypassed(env)
    /\ \E found \in BOOLEAN :
         /\ probe_arg' = <<is_static[1]>>
         /\ probe_result' = <<found>>
         /\ out' = Append(out, IF found
                               THEN Info("Found Opus via pkg_config.", <<>>)
                               ELSE Info("pkg_config could not find Opus.", <<>>))
         /\ pc' = after_probe(found)
    /\ calls' = Append(calls, "find_via_pkg_config")
    /\ UNCHANGED <<is_static, installed_opus, panic>>
    /\ InputsUnchanged /\ MacroUnchanged

\* main, lines 186-187
LocateInstalled ==
    /\ pc = "find_installed_opus"
    /\ LET r == find_installed_opus(env) IN
         /\ installed_opus' = <<r>>
         /\ IF r.some
            THEN /\ out' = out \o link_opus(is_static[1], r.val)
                 /\ calls' = calls \o <<"find_installed_opus", "link_opus">>
                 /\ pc' = "returned"
            ELSE /\ out' = out
                 /\ calls' = Append(calls, "find_installed_opus")
                 /\ pc' = "build_opus"
    /\ UNCHANGED <<is_static, probe_arg, probe_result, panic>>
    /\ InputsUnchanged /\ MacroUnchanged

\* main, line 189
BuildOpus ==
    /\ pc = "build_opus"
    /\ \E outcome \in BuildOutcomes, dir \in Dirs :
         LET r == build_opus(is_static[1], outcome, dir) IN
         /\ out' = out \o r.out
         /\ panic' = r.panic
         /\ pc' = IF r.panic = "" THEN "returned" ELSE "panicked"
         /\ calls' = IF outcome = "ok"
                     THEN calls \o <<"build_opus", "link_opus">>
                     ELSE Append(calls, "build_opus")
    /\ UNCHANGED <<is_static, probe_arg, probe_result, installed_opus>>
    /\ InputsUnchanged /\ MacroUnchanged

Next ==
    \/ GenerateBinding
    \/ ResolveLinkMode
    \/ PkgConfigBypass
    \/ PkgConfigProbe
    \/ LocateInstalled
    \/ BuildOpus

Spec == Init /\ [][Next]_vars

(***************************************************************************)
(* link_opus as a function of its arguments                                *)
(***************************************************************************)
DirAlphabet == {"u", "s", "/"}

NoFeatures == [static |-> FALSE, dynamic |-> FALSE, generate_binding |-> FALSE]
NoEnvironment ==
    [ LIBOPUS_STATIC |-> Absent, OPUS_STATIC |-> Absent,
      LIBOPUS_NO_PKG |-> Absent, OPUS_NO_PKG |-> Absent,
      LIBOPUS_LIB_DIR |-> Absent, OPUS_LIB_DIR |-> Absent ]
LinuxGnu == Target("unix", "linux", "gnu")

InitLink ==
    /\ features = NoFeatures
    /\ target = LinuxGnu
    /\ env = NoEnvironment
    /\ pc = "link_opus"
    /\ is_static \in {<<TRUE>>, <<FALSE>>}
    /\ link_dir \in Strs(DirAlphabet, MaxDirLen)
    /\ probe_arg = <<>>
    /\ probe_result = <<>>
    /\ installed_opus = <<>>
    /\ out = <<>>
    /\ calls = <<>>
    /\ panic = ""
    /\ macro_name = <<>>
    /\ macro_value = I64(0, 0, 0, 0)
    /\ macro_kind = <<>>

LinkOpus ==
    /\ pc = "link_opus"
    /\ out' = out \o link_opus(is_static[1], link_dir)
    /\ calls' = Append(calls, "link_opus")
    /\ pc' = "returned"
    /\ UNCHANGED <<is_static, probe_arg, probe_result, installed_opus, panic>>
    /\ InputsUnchanged /\ MacroUnchanged

NextLink == LinkOpus

SpecLink == InitLink /\ [][NextLink]_vars

(***************************************************************************)
(* int_macro as a function of its arguments                                *)
(***************************************************************************)
NameAlphabet == {"O", "P", "U", "S", "_"}

\* 2049 (OPUS_APPLICATION_AUDIO in opus_defines.h), 2^31 and -2^31 - 1
MacroValues ==
    { I64(0, 0, 0, 2049),
      I64(0, 0, Limb \div 2, 0),
      I64(Limb - 1, Limb - 1, Limb \div 2 - 1, Limb - 1) }

InitMacro ==
    /\ features = [static |-> FALSE, dynamic |-> FALSE, generate_binding |-> TRUE]
    /\ target = LinuxGnu
    /\ env = NoEnvironment
    /\ pc = "int_macro"
    /\ macro_name \in Strs(NameAlphabet, MaxNameLen)
    /\ macro_value \in MacroValues
    /\ macro_kind = <<>>
    /\ is_static = <<>>
    /\ link_dir = <<>>
    /\ probe_arg = <<>>
    /\ probe_result = <<>>
    /\ installed_opus = <<>>
    /\ out = <<>>
    /\ calls = <<>>
    /\ panic = ""

IntMacro ==
    /\ pc = "int_macro"
    /\ macro_kind' = <<int_macro(macro_name, macro_value)>>
    /\ pc' = "returned"
    /\ UNCHANGED <<is_static, probe_arg, probe_result, installed_opus, out,
                   calls, panic, link_dir, macro_name, macro_value>>
    /\ InputsUnchanged

NextMacro == IntMacro

SpecMacro == InitMacro /\ [][NextMacro]_vars

(***************************************************************************)
(* Properties                                                              *)
(***************************************************************************)
Range(q) == {q[i] : i \in 1..Len(q)}
Positions(q, x) == {i \in 1..Len(q) : q[i] = x}
LinesOf(kind) == {i \in 1..Len(out) : out[i].kind = kind}

\* A variable is present when it is set, whatever its value
Present(name) == env[name].tag # "absent"
\* A variable set to a value that is valid Unicode
PresentUnicode(name) == env[name].tag = "unicode"

\* The platform default of the documentation: static on Windows, macOS and
\* musl, dynamic on FreeBSD and on POSIX with glibc
PlatformDefaultIsStatic ==
    target.family = "windows" \/ target.os = "macos" \/ target.env = "musl"

\* C1: for every combination of the static and dynamic features and of the
\* presence of LIBOPUS_STATIC and OPUS_STATIC, on every supported platform,
\* is_static_build returns what the priority table gives: both features ->
\* platform default; else static feature or either variable present ->
\* static; else dynamic feature -> dynamic; else platform default.
C1_PriorityTableByPresence ==
    is_static # <<>> =>
        is_static[1] =
            (IF features.static /\ features.dynamic THEN PlatformDefaultIsStatic
             ELSE IF features.static \/ Present("LIBOPUS_STATIC") \/ Present("OPUS_STATIC")
                  THEN TRUE
             ELSE IF features.dynamic THEN FALSE
             ELSE PlatformDefaultIsStatic)

\* The table of C1 read with "present" as "set to a valid Unicode value":
\* what the code computes in all of its cases.
PriorityTableByUnicodeValue ==
    is_static # <<>> =>
        is_static[1] =
            (IF features.static /\ features.dynamic THEN PlatformDefaultIsStatic
             ELSE IF \/ features.static
                     \/ PresentUnicode("LIBOPUS_STATIC")
                     \/ PresentUnicode("OPUS_STATIC")
                  THEN TRUE
             ELSE IF features.dynamic THEN FALSE
             ELSE PlatformDefaultIsStatic)

\* C2: find_installed_opus returns the value of LIBOPUS_LIB_DIR when that
\* variable is set (also when OPUS_LIB_DIR is set too), else the value of
\* OPUS_LIB_DIR when that one is set, else nothing.
C2_LocatorPriorityByPresence ==
    installed_opus # <<>> =>
        installed_opus[1] =
            (IF Present("LIBOPUS_LIB_DIR") THEN Some(env["LIBOPUS_LIB_DIR"].val)
             ELSE IF Present("OPUS_LIB_DIR") THEN Some(env["OPUS_LIB_DIR"].val)
             ELSE None)

\* The order of C2 read with "set" as "set to a valid Unicode value".
LocatorPriorityByUnicodeValue ==
    installed_opus # <<>> =>
        installed_opus[1] =
            (IF PresentUnicode("LIBOPUS_LIB_DIR") THEN Some(env["LIBOPUS_LIB_DIR"].val)
             ELSE IF PresentUnicode("OPUS_LIB_DIR") THEN Some(env["OPUS_LIB_DIR"].val)
             ELSE None)

PlainGlibcRun ==
    /\ features = NoFeatures
    /\ env = NoEnvironment
    /\ target = LinuxGnu

\* C3: with no environment variable set and no feature enabled on a
\* POSIX-glibc platform, the link mode is dynamic, the package-config probe
\* is attempted before any other location strategy, the native build is
\* invoked only after the probe reported not-found, and after a probe that
\* reported found the run has returned without locator, build or link.
C3_PlainGlibcProbeFirst ==
    PlainGlibcRun =>
        /\ is_static # <<>> => is_static = <<FALSE>>
        /\ \A i \in 1..Len(calls) :
             calls[i] \in {"find_installed_opus", "build_opus", "link_opus"}
                => \E j \in 1..(i - 1) : calls[j] = "find_via_pkg_config"
        /\ pc \in {"find_installed_opus", "build_opus", "returned", "panicked"}
             => probe_arg = <<FALSE>>
        /\ "build_opus" \in Range(calls) => probe_result = <<FALSE>>
        /\ probe_result = <<TRUE>> =>
             /\ pc = "returned"
             /\ Range(calls) \cap {"find_installed_opus", "build_opus", "link_opus"} = {}

C3_Witness ==
    /\ PlainGlibcRun
    /\ pc = "returned"
    /\ calls = <<"is_static_build", "find_via_pkg_config", "find_installed_opus",
                 "build_opus", "link_opus">>

SearchPaths == {out[i].arg : i \in LinesOf("rustc-link-search")}
LibSuffix == <<"/", "l", "i", "b">>

\* How many separators end s
RECURSIVE TrailingSeparators(_)
TrailingSeparators(s) ==
    IF Len(s) > 0 /\ s[Len(s)] = "/"
    THEN 1 + TrailingSeparators(SubSeq(s, 1, Len(s) - 1))
    ELSE 0

\* C4 as stated: for every base directory, also one ending in separators,
\* the search path is the base directory's lib subdirectory with a single
\* separator before lib.
C4_SingleSeparatorBeforeLib ==
    pc = "returned" =>
        \A path \in SearchPaths :
            /\ Len(path) >= 4
            /\ SubSeq(path, Len(path) - 3, Len(path)) = LibSuffix
            /\ TrailingSeparators(SubSeq(path, 1, Len(path) - 3)) = 1

\* C4 as amended: the search path is the base directory, unchanged, followed
\* by "/lib"; a base directory ending in k separators gives k + 1 separators
\* before lib.
C4_LibAppendedVerbatim ==
    pc = "returned" =>
        /\ SearchPaths # {}
        /\ \A path \in SearchPaths :
            /\ Len(path) = Len(link_dir) + 4
            /\ \A i \in 1..Len(link_dir) : path[i] = link_dir[i]
            /\ SubSeq(path, Len(path) - 3, Len(path)) = LibSuffix
            /\ TrailingSeparators(SubSeq(path, 1, Len(path) - 3))
                 = TrailingSeparators(link_dir) + 1

C4_Witness ==
    /\ pc = "returned"
    /\ link_dir = <<"u", "/", "/">>
    /\ SearchPaths = { <<"u", "/", "/", "/", "l", "i", "b">> }

ProbeNeverInvoked ==
    /\ probe_arg = <<>>
    /\ probe_result = <<>>
    /\ "find_via_pkg_config" \notin Range(calls)
    /\ pc # "pkg_config"

\* C5 as stated: on every target that is not POSIX-like (any Windows target,
\* whatever its target environment) no run invokes find_via_pkg_config, and
\* the flow goes from link-mode resolution directly to the locator.
C5_NoProbeOffPosix ==
    ~cfg_unix(target) =>
        /\ ProbeNeverInvoked
        /\ \A i \in 1..(Len(calls) - 1) :
             calls[i] = "is_static_build" => calls[i + 1] = "find_installed_opus"

\* C5 as amended: on every target that is neither unix nor of target
\* environment gnu no run invokes find_via_pkg_config, and the flow goes from
\* link-mode resolution directly to the locator.
C5_NoProbeOffUnixAndGnu ==
    (~cfg_unix(target) /\ target.env # "gnu") =>
        /\ ProbeNeverInvoked
        /\ \A i \in 1..(Len(calls) - 1) :
             calls[i] = "is_static_build" => calls[i + 1] = "find_installed_opus"
        /\ \A i \in LinesOf("info") :
             out[i].word \notin {"Bypassed pkg-config.", "Found Opus via pkg_config.",
                                 "pkg_config could not find Opus."}

C5_Witness ==
    /\ target = Target("windows", "windows", "msvc")
    /\ ~PresentUnicode("LIBOPUS_NO_PKG") /\ ~PresentUnicode("OPUS_NO_PKG")
    /\ pc = "returned"
    /\ "find_installed_opus" \in Range(calls)

\* C6: in every run that prints a library-link directive its linking word is
\* "static" exactly when the mode resolved by is_static_build was static and
\* "dylib" otherwise, whether the directory came from the locator or from
\* the native build; the probe is passed that same mode; the mode is
\* resolved once.
C6_LinkWordIsResolvedMode ==
    /\ \A i \in LinesOf("rustc-link-lib") :
         /\ is_static # <<>>
         /\ out[i].word = "static" <=> is_static = <<TRUE>>
         /\ out[i].word = "dylib" <=> is_static = <<FALSE>>
    /\ probe_arg # <<>> => probe_arg = is_static
    /\ Cardinality(Positions(calls, "is_static_build")) <= 1
    /\ is_static # <<>> => "is_static_build" \in Range(calls)

C6_Witness ==
    /\ probe_arg = <<TRUE>>
    /\ "build_opus" \in Range(calls)
    /\ \E i \in LinesOf("rustc-link-lib") : out[i].word = "static"

FatalMessages ==
    { "Unable to generate binding",
      "Could not write binding to the file at src/lib.rs",
      "Could not canonicalise to absolute path",
      "cmake build failed" }

\* C7: a resolution failure (canonicalization, native build, binding parse
\* or write) is fatal at once: the run has stopped, the failing step was
\* tried once and is the last thing the run did, no other strategy follows,
\* and neither a library-link nor a search-path directive has been printed.
C7_FailureIsFatalWithoutDirectives ==
    /\ pc = "panicked" <=> panic # ""
    /\ pc = "panicked" =>
        /\ panic \in FatalMessages
        /\ LinesOf("rustc-link-lib") = {}
        /\ LinesOf("rustc-link-search") = {}
        /\ "link_opus" \notin Range(calls)
        /\ Last(calls) \in {"generate_binding", "build_opus"}
        /\ \A f \in Range(calls) : Cardinality(Positions(calls, f)) = 1
        /\ ~ENABLED Next

C7_Witness ==
    /\ pc = "panicked"
    /\ panic = "cmake build failed"
    /\ probe_result = <<FALSE>>
    /\ installed_opus = <<None>>

HasOpusPrefix(name) ==
    /\ Len(name) >= 5
    /\ name[1] = "O" /\ name[2] = "P" /\ name[3] = "U" /\ name[4] = "S" /\ name[5] = "_"

\* C8: int_macro returns the 32-bit signed kind for every macro whose name
\* begins with OPUS_, whatever its value (also outside i32's range), and no
\* override for every other name.
C8_OpusMacrosAreI32 ==
    macro_kind # <<>> =>
        /\ HasOpusPrefix(macro_name) => macro_kind = <<"I32">>
        /\ ~HasOpusPrefix(macro_name) => macro_kind = <<"None">>

C8_Witness ==
    /\ macro_kind = <<"I32">>
    /\ macro_name = <<"O", "P", "U", "S", "_", "U">>
    /\ macro_value = I64(0, 0, Limb \div 2, 0)

BypassPresent == Present("LIBOPUS_NO_PKG") \/ Present("OPUS_NO_PKG")

\* C9: on a probe-capable platform the probe runs unless LIBOPUS_NO_PKG or
\* OPUS_NO_PKG is present, and then it is never invoked; the locator is
\* consulted only after the probe was bypassed or reported not-found; the
\* native build is invoked only if the locator also returned nothing; a
\* not-found result is never fatal.
C9_ChainInOrderByPresence ==
    pkg_config_compiled(target) =>
        /\ BypassPresent => ProbeNeverInvoked \/ pc = "pkg_config"
        /\ (~BypassPresent /\ pc \in {"find_installed_opus", "build_opus", "returned"})
             => probe_arg # <<>>
        /\ "find_installed_opus" \in Range(calls)
             => (BypassPresent /\ probe_result = <<>>) \/ probe_result = <<FALSE>>
        /\ "build_opus" \in Range(calls) => installed_opus = <<None>>
        /\ pc = "panicked" => panic \in FatalMessages

\* The chain of C9 read with "present" as "set to a valid Unicode value".
ChainInOrderByUnicodeValue ==
    LET bypass == PresentUnicode("LIBOPUS_NO_PKG") \/ PresentUnicode("OPUS_NO_PKG") IN
    pkg_config_compiled(target) =>
        /\ bypass => ProbeNeverInvoked \/ pc = "pkg_config"
        /\ (~bypass /\ pc \in {"find_installed_opus", "build_opus", "returned"})
             => probe_arg # <<>>
        /\ "find_installed_opus" \in Range(calls)
             => (bypass /\ probe_result = <<>>) \/ probe_result = <<FALSE>>
        /\ "build_opus" \in Range(calls) => installed_opus = <<None>>
        /\ pc = "panicked" => panic \in FatalMessages

\* C10: the library-link and the search-path directive are printed together
\* and at most once each; a run that ends because the probe found the
\* library prints neither and never consults LIBOPUS_LIB_DIR or
\* OPUS_LIB_DIR; every other run that returns prints exactly one
\* library-link directive and right after it exactly one search-path
\* directive.
C10_DirectivesPairedAtMostOnce ==
    /\ Cardinality(LinesOf("rustc-link-lib")) <= 1
    /\ Cardinality(LinesOf("rustc-link-search")) = Cardinality(LinesOf("rustc-link-lib"))
    /\ \A i \in LinesOf("rustc-link-lib") : (i + 1) \in LinesOf("rustc-link-search")
    /\ (pc = "returned" /\ probe_result = <<TRUE>>) =>
         /\ LinesOf("rustc-link-lib") = {}
         /\ installed_opus = <<>>
         /\ "link_opus" \notin Range(calls)
    /\ (pc = "returned" /\ probe_result # <<TRUE>>) =>
         /\ Cardinality(LinesOf("rustc-link-lib")) = 1
         /\ Cardinality(Positions(calls, "link_opus")) = 1

C10_Witness ==
    /\ pc = "returned"
    /\ probe_result = <<TRUE>>
    /\ PresentUnicode("LIBOPUS_LIB_DIR")
    /\ PresentUnicode("OPUS_LIB_DIR")

====
